---- MODULE Spec2Model ----
(***************************************************************************)
(* A model of pkg/updater/read.go: the concurrent build-reading pipeline.  *)
(*                                                                         *)
(*   SpecRC  readColumns: dispatcher, workers, stop detectors, main        *)
(*   SpecRR  readResult : the four download branches and the collector     *)
(*   SpecRS  readSuites : the listing stage, the download stage, collector *)
(*                                                                         *)
(* How a Go select is rendered.  A select takes one of the cases that can  *)
(* proceed at the instant it runs.  A send or receive on an unbuffered     *)
(* channel can proceed only with a partner that is parked on that channel; *)
(* a goroutine parks only when none of its cases can proceed, and closing  *)
(* a channel (cancelling a context closes its Done channel) wakes every    *)
(* goroutine parked on it with the Done case.  So between two selects that *)
(* both list the same ctx.Done(), a rendezvous happens only while that     *)
(* context is not cancelled; it is one joint action of the two goroutines. *)
(* A receive from a closed channel and a receive from a closed Done        *)
(* channel can both proceed at once, and then either may be taken.         *)
(***************************************************************************)
EXTENDS Integers, Sequences, FiniteSets, TLC

\* ------------------------------------------------------------------------
\* Bounds of the model
\* ------------------------------------------------------------------------
\* the longest build listing handed to readColumns (and the largest max)
MaxBuilds == 3
\* the largest number of workers (readColumns' concurrency argument)
MaxConcurrency == 2

VARIABLES
    \* ---- readColumns: arguments
    listed,       \* builds as passed in (listing order), each with its listing position
    max,          \* max
    concurrency,  \* concurrency as passed in
    stopTime,     \* stopTime, epoch milliseconds
    \* ---- readColumns: locals shared by the goroutines
    builds,       \* builds after the cap
    maxIdx,       \* maxIdx, guarded by maxLock
    cols,         \* cols, one slot per capped build
    parentDone,   \* the parent context is cancelled
    cancelled,    \* cancel() of ctx has been called
    \* ---- readColumns: the calling goroutine
    mainPc, remaining, ret, retCols,
    \* ---- readColumns: the dispatcher
    dispPc, dispI,
    \* ---- readColumns: the workers
    wPc, wIdx, wVal,
    \* ---- readColumns: the stop detectors, one per build index at most
    det,
    \* ---- readColumns: history
    fetched,      \* listing positions of the builds passed to readResult
    nilSent,      \* workers whose nil report main received
    oldSent,      \* indices delivered on the old channel
    given,        \* per worker, the indices it received from the dispatcher
    sends,        \* per worker, how many of its sends on ec main received
    \* ---- readResult
    rrOut,        \* what each download returns: [kind, path]
    rrParentDone, \* parent (the per-build context) is cancelled or timed out
    rrCancelled,  \* cancel() of readResult's ctx has been called
    rrPc, rrWork, rrRet, rrRetMalformed,
    bPc, bErr,    \* the four branch goroutines and the error each will report
    malformed,    \* result.malformed, guarded by lock
    rrNil,        \* branches whose nil report the collector received
    \* ---- readSuites
    rsIn,         \* what the two stages will do
    rsParentDone, \* parent (readResult's ctx) is cancelled
    rsCancelled,  \* cancel() of readSuites' ctx has been called
    rsPc, rsWork, rsRet, rsRetSuites,
    suites,       \* the local suites
    lsPc, lsSent, lsErr,      \* the listing goroutine
    dlPc, dlPending, dlErr,   \* the download goroutine
    emitted,      \* the suites sent on suitesChan, in order
    \* ---- gcsColumnReader and hintStarted
    oldCols,      \* oldCols: the hint and Started of each previously known column
    stopArg,      \* stop as the caller passed it, epoch milliseconds
    crPc,
    since,        \* the hint hintStarted returned
    newStop,      \* the time hintStarted returned, epoch milliseconds
    stopOut,      \* stop as handed to readColumns
    \* ---- makeNameConfig and nameConfig.render
    group,        \* the test group: TestNameConfig and GcsPrefix
    rnArgs,       \* render's arguments: job, test and the metadata mappings
    ncPc,
    nameCfg,      \* the nameConfig made for the group
    rendered      \* what render returned

rcVars == <<listed, max, concurrency, stopTime, builds, maxIdx, cols, parentDone,
            cancelled, mainPc, remaining, ret, retCols, dispPc, dispI, wPc, wIdx,
            wVal, det, fetched, nilSent, oldSent, given, sends>>

rrVars == <<rrOut, rrParentDone, rrCancelled, rrPc, rrWork, rrRet, rrRetMalformed, bPc,
            bErr, malformed, rrNil>>

rsVars == <<rsIn, rsParentDone, rsCancelled, rsPc, rsWork, rsRet, rsRetSuites, suites,
            lsPc, lsSent, lsErr, dlPc, dlPending, dlErr, emitted>>

crVars == <<oldCols, stopArg, crPc, since, newStop, stopOut>>

ncVars == <<group, rnArgs, ncPc, nameCfg, rendered>>

fnVars == <<crVars, ncVars>>

vars == <<rcVars, rrVars, rsVars, fnVars>>

\* ------------------------------------------------------------------------
\* Inputs
\* ------------------------------------------------------------------------
\* What one build's downloads do.  pod, st, fin: the outcome of build.PodInfo,
\* build.Started, build.Finished ("ok", "eof" for io.EOF, "err" for any other
\* error); su: readSuites ("ok", "gcs" for a gcs.Error, "err"); started: the
\* Started of the column converted from the build.
Healthy(s) == [started |-> s, pod |-> "ok", st |-> "ok", fin |-> "ok", su |-> "ok"]

\* With stopTime 2500 the boundary is 2000: a column started at 2000 is before
\* stopTime but not before the boundary, one started at 1999 is before it.
BuildKinds ==
    { Healthy(2000), Healthy(1999), [Healthy(1999) EXCEPT !.pod = "eof", !.fin = "err"] }

StopTimes == {2500}

Listings ==
    UNION { [1..n -> BuildKinds] : n \in 0..MaxBuilds }

\* a listed build: its kind plus its position in the listing
WithId(kinds) ==
    [i \in 1..Len(kinds) |->
        [id |-> i, started |-> kinds[i].started, pod |-> kinds[i].pod, st |-> kinds[i].st,
         fin |-> kinds[i].fin, su |-> kinds[i].su]]

ZeroCol == [id |-> 0, started |-> 0]

Workers == 1..MaxConcurrency
Indices == 0..(MaxBuilds - 1)

\* ------------------------------------------------------------------------
\* readColumns: pure pieces
\* ------------------------------------------------------------------------
\* stop := stopTime.Unix() * 1000
StopMillis(t) == (t \div 1000) * 1000

stop == StopMillis(stopTime)

CapBuildsFirst(bs, m) ==
    IF Len(bs) > m THEN SubSeq(bs, 1, m) ELSE bs

\* if lb := len(builds); lb > max { builds = builds[lb-max:] }
CapBuilds(bs, m) ==
    IF Len(bs) > m THEN SubSeq(bs, Len(bs) - m + 1, Len(bs)) ELSE bs

IsOldNever(started, stp) == FALSE

\* if int64(col.Column.Started) < stop
IsOld(started, stp) == started < stp

StillVendingAlways(cur, n) == TRUE

\* if maxIdx == len(builds)
StillVending(cur, n) == cur = n

NewMaxIdxLast(cur, idx) == idx + 1

\* if maxIdx > idx+1 { maxIdx = idx + 1 }
NewMaxIdx(cur, idx) == IF cur > idx + 1 THEN idx + 1 ELSE cur

FirstFree(cs) == CHOOSE i \in 1..Len(cs) : cs[i].id = 0 /\ \A j \in 1..(i - 1) : cs[j].id # 0

WriteColAppend(cs, idx, col) ==
    IF \E i \in 1..Len(cs) : cs[i].id = 0 THEN [cs EXCEPT ![FirstFree(cs)] = col] ELSE cs

\* cols[idx] = *col
WriteCol(cs, idx, col) == [cs EXCEPT ![idx + 1] = col]

\* cols[0:maxIdx]
Slice(cs, n) == SubSeq(cs, 1, n)

readResultNeverFails(b) == {"ok", "err"}

\* What readResult can return for a build: an error when a download fails hard
\* (see SpecRR), otherwise success, or the timeout error of the per-build context.
HardDownload(b) == b.pod = "err" \/ b.st = "err" \/ b.fin = "err" \/ b.su = "err"

readResultReturns(b) == IF HardDownload(b) THEN {"err"} ELSE {"ok", "err"}

\* convertResult returns a column or an error
convertResultReturns == {"ok", "err"}

NextIndexSame(i) == i

\* for i := range builds: the index after i
NextIndex(i) == i + 1

AfterReportLoops == "recv"

\* the return that follows a worker's report on ec (lines 159, 175, 184)
AfterReport == "done"

ZeroReadersIgnored(c) == FALSE

\* if concurrency == 0
ZeroReaders(c) == c = 0

\* ctx, the child of parent that cancel() cancels
ctxDone == parentDone \/ cancelled

\* what a select that lists ctx.Done() needs for a rendezvous on another channel
CanMeet == ~ctxDone

N == Len(builds)

LockFree == \A i \in Indices : det[i] # "select"

\* readSuites is not running
IdleCR ==
    /\ oldCols = <<>>
    /\ stopArg = 0
    /\ crPc = "idle"
    /\ since = <<>>
    /\ newStop = 0
    /\ stopOut = 0

IdleNC ==
    /\ group = <<>>
    /\ rnArgs = <<>>
    /\ ncPc = "idle"
    /\ nameCfg = <<>>
    /\ rendered = <<>>

IdleRS ==
    /\ rsIn = <<>>
    /\ rsParentDone = FALSE
    /\ rsCancelled = FALSE
    /\ rsPc = "idle"
    /\ rsWork = 0
    /\ rsRet = "none"
    /\ rsRetSuites = <<>>
    /\ suites = <<>>
    /\ lsPc = "idle"
    /\ lsSent = 0
    /\ lsErr = "nil"
    /\ dlPc = "idle"
    /\ dlPending = {}
    /\ dlErr = "nil"
    /\ emitted = <<>>

\* readResult is not running
IdleRR ==
    /\ rrOut = <<>>
    /\ rrParentDone = FALSE
    /\ rrCancelled = FALSE
    /\ rrPc = "idle"
    /\ rrWork = 0
    /\ rrRet = "none"
    /\ rrRetMalformed = <<>>
    /\ bPc = <<>>
    /\ bErr = <<>>
    /\ malformed = <<>>
    /\ rrNil = {}

\* ------------------------------------------------------------------------
\* readColumns: initial state
\* ------------------------------------------------------------------------
InitRC ==
    /\ \E ks \in Listings : listed = WithId(ks)
    /\ max \in 1..MaxBuilds
    /\ concurrency \in 0..MaxConcurrency
    /\ stopTime \in StopTimes
    /\ builds = <<>>
    /\ maxIdx = 0
    /\ cols = <<>>
    /\ parentDone = FALSE
    /\ cancelled = FALSE
    /\ mainPc = "start"
    /\ remaining = 0
    /\ ret = "none"
    /\ retCols = <<>>
    /\ dispPc = "idle"
    /\ dispI = 0
    /\ wPc = [w \in Workers |-> "unused"]
    /\ wIdx = [w \in Workers |-> 0]
    /\ wVal = [w \in Workers |-> "nil"]
    /\ det = [i \in Indices |-> "none"]
    /\ fetched = {}
    /\ nilSent = {}
    /\ given = [w \in Workers |-> {}]
    /\ sends = [w \in Workers |-> 0]
    /\ oldSent = {}
    /\ IdleRR
    /\ IdleRS
    /\ IdleCR
    /\ IdleNC

\* ------------------------------------------------------------------------
\* readColumns: the environment
\* ------------------------------------------------------------------------
\* The caller cancels parent (or its deadline passes).  After main has left its
\* receive loop the cancellation changes nothing: ctx is cancelled on every path.
ParentCancel ==
    /\ mainPc \in {"start", "loop"}
    /\ ~parentDone
    /\ parentDone' = TRUE
    /\ UNCHANGED <<listed, max, concurrency, stopTime, builds, maxIdx, cols, cancelled,
                   mainPc, remaining, ret, retCols, dispPc, dispI, wPc, wIdx, wVal, det,
                   fetched, nilSent, oldSent,
                   given, sends>>
    /\ UNCHANGED <<rrVars, rsVars, fnVars>>

\* ------------------------------------------------------------------------
\* readColumns: the calling goroutine
\* ------------------------------------------------------------------------
\* if concurrency == 0 { return nil, errors.New("zero readers") }
MainZeroReaders ==
    /\ mainPc = "start"
    /\ ZeroReaders(concurrency)
    /\ ret' = "err"
    /\ mainPc' = "returned"
    /\ UNCHANGED <<listed, max, concurrency, stopTime, builds, maxIdx, cols, parentDone,
                   cancelled, remaining, retCols, dispPc, dispI, wPc, wIdx, wVal, det,
                   fetched, nilSent, oldSent,
                   given, sends>>
    /\ UNCHANGED <<rrVars, rsVars, fnVars>>

\* lines 94-218: cap the builds, size cols, start the dispatcher and the workers
MainStart ==
    /\ mainPc = "start"
    /\ ~ZeroReaders(concurrency)
    /\ builds' = CapBuilds(listed, max)
    /\ maxIdx' = Len(builds')
    /\ cols' = [i \in 1..Len(builds') |-> ZeroCol]
    /\ dispPc' = "vend"
    /\ dispI' = 0
    /\ wPc' = [w \in Workers |-> IF w <= concurrency THEN "recv" ELSE "unused"]
    /\ remaining' = concurrency
    /\ mainPc' = "loop"
    /\ UNCHANGED <<listed, max, concurrency, stopTime, parentDone, cancelled, ret,
                   retCols, wIdx, wVal, det, fetched, nilSent, oldSent,
                   given, sends>>
    /\ UNCHANGED <<rrVars, rsVars, fnVars>>

\* case err := <-ec, met by worker w's send (ec <- nil, or ec <- fmt.Errorf(...)),
\* after which the worker returns and the value it sent is gone
MainRecv(w) ==
    /\ mainPc = "loop"
    /\ wPc[w] = "send"
    /\ CanMeet
    /\ wPc' = [wPc EXCEPT ![w] = AfterReport]
    /\ sends' = [sends EXCEPT ![w] = @ + 1]
    /\ wVal' = [wVal EXCEPT ![w] = "nil"]
    /\ IF wVal[w] = "err"
         THEN /\ ret' = "err"
              /\ mainPc' = "dcancel"
              /\ UNCHANGED <<remaining, nilSent>>
         ELSE /\ remaining' = remaining - 1
              /\ nilSent' = nilSent \cup {w}
              /\ mainPc' = IF remaining - 1 > 0 THEN "loop" ELSE "cancel"
              /\ ret' = ret
    /\ UNCHANGED <<listed, max, concurrency, stopTime, builds, maxIdx, cols, parentDone,
                   cancelled, retCols, dispPc, dispI, wIdx, det, fetched, oldSent,
                   given>>
    /\ UNCHANGED <<rrVars, rsVars, fnVars>>

\* case <-ctx.Done(): return nil, ctx.Err()
MainCtxDone ==
    /\ mainPc = "loop"
    /\ ctxDone
    /\ ret' = "err"
    /\ mainPc' = "dcancel"
    /\ UNCHANGED <<listed, max, concurrency, stopTime, builds, maxIdx, cols, parentDone,
                   cancelled, remaining, retCols, dispPc, dispI, wPc, wIdx, wVal, det,
                   fetched, nilSent, oldSent,
                   given, sends>>
    /\ UNCHANGED <<rrVars, rsVars, fnVars>>

AfterStepNoStopWait(pc) ==
    CASE pc = "cancel"    -> "wgWait"
      [] pc = "wgWait"    -> "stopWait"
      [] pc = "stopWait"  -> "slice"
      [] pc = "slice"     -> "dcancel"
      [] pc = "dcancel"   -> "dwgWait"
      [] pc = "dwgWait"   -> "returned"
      [] pc = "dstopWait" -> "returned"

\* The statements after the loop and the deferred calls, in the order they run:
\* cancel(); wg.Wait(); stopWG.Wait(); return cols[0:maxIdx], nil; then the
\* deferred cancel(), wg.Wait(), stopWG.Wait().
AfterStep(pc) ==
    CASE pc = "cancel"    -> "wgWait"
      [] pc = "wgWait"    -> "stopWait"
      [] pc = "stopWait"  -> "slice"
      [] pc = "slice"     -> "dcancel"
      [] pc = "dcancel"   -> "dwgWait"
      [] pc = "dwgWait"   -> "dstopWait"
      [] pc = "dstopWait" -> "returned"

\* cancel(), line 232 and the deferred call of line 106
MainCancel ==
    /\ mainPc \in {"cancel", "dcancel"}
    /\ cancelled' = TRUE
    /\ mainPc' = AfterStep(mainPc)
    /\ UNCHANGED <<listed, max, concurrency, stopTime, builds, maxIdx, cols, parentDone,
                   remaining, ret, retCols, dispPc, dispI, wPc, wIdx, wVal, det, fetched,
                   nilSent, oldSent,
                   given, sends>>
    /\ UNCHANGED <<rrVars, rsVars, fnVars>>

\* wg.Wait(), line 233 and the deferred call of line 98
MainWgWait ==
    /\ mainPc \in {"wgWait", "dwgWait"}
    /\ dispPc = "done"
    /\ \A w \in Workers : wPc[w] \in {"unused", "done"}
    /\ mainPc' = AfterStep(mainPc)
    /\ UNCHANGED <<listed, max, concurrency, stopTime, builds, maxIdx, cols, parentDone,
                   cancelled, remaining, ret, retCols, dispPc, dispI, wPc, wIdx, wVal,
                   det, fetched, nilSent, oldSent,
                   given, sends>>
    /\ UNCHANGED <<rrVars, rsVars, fnVars>>

\* stopWG.Wait(), line 234 and the deferred call of line 96
MainStopWait ==
    /\ mainPc \in {"stopWait", "dstopWait"}
    /\ \A i \in Indices : det[i] \in {"none", "done"}
    /\ mainPc' = AfterStep(mainPc)
    /\ UNCHANGED <<listed, max, concurrency, stopTime, builds, maxIdx, cols, parentDone,
                   cancelled, remaining, ret, retCols, dispPc, dispI, wPc, wIdx, wVal,
                   det, fetched, nilSent, oldSent,
                   given, sends>>
    /\ UNCHANGED <<rrVars, rsVars, fnVars>>

\* return cols[0:maxIdx], nil
MainSlice ==
    /\ mainPc = "slice"
    /\ ret' = "ok"
    /\ retCols' = Slice(cols, maxIdx)
    /\ mainPc' = AfterStep(mainPc)
    /\ UNCHANGED <<listed, max, concurrency, stopTime, builds, maxIdx, cols, parentDone,
                   cancelled, remaining, dispPc, dispI, wPc, wIdx, wVal, det, fetched,
                   nilSent, oldSent,
                   given, sends>>
    /\ UNCHANGED <<rrVars, rsVars, fnVars>>

\* ------------------------------------------------------------------------
\* readColumns: the dispatcher (lines 120-132)
\* ------------------------------------------------------------------------
\* case indices <- i, met by worker w's receive (line 151); the worker goes on to
\* call readResult on builds[idx]
Vend(w) ==
    /\ dispPc = "vend"
    /\ dispI < N
    /\ wPc[w] = "recv"
    /\ CanMeet
    /\ wIdx' = [wIdx EXCEPT ![w] = dispI]
    /\ wPc' = [wPc EXCEPT ![w] = "read"]
    /\ fetched' = fetched \cup {builds[dispI + 1].id}
    /\ dispI' = NextIndex(dispI)
    /\ given' = [given EXCEPT ![w] = @ \cup {dispI}]
    /\ UNCHANGED <<listed, max, concurrency, stopTime, builds, maxIdx, cols, parentDone,
                   cancelled, mainPc, remaining, ret, retCols, dispPc, wVal, det,
                   nilSent, oldSent,
                   sends>>
    /\ UNCHANGED <<rrVars, rsVars, fnVars>>

\* case <-ctx.Done(): return (and the deferred close(indices))
DispCtxDone ==
    /\ dispPc = "vend"
    /\ dispI < N
    /\ ctxDone
    /\ dispPc' = "done"
    /\ UNCHANGED <<listed, max, concurrency, stopTime, builds, maxIdx, cols, parentDone,
                   cancelled, mainPc, remaining, ret, retCols, dispI, wPc, wIdx, wVal, det,
                   fetched, nilSent, oldSent,
                   given, sends>>
    /\ UNCHANGED <<rrVars, rsVars, fnVars>>

\* the range over builds is exhausted: the deferred close(indices)
DispClose ==
    /\ dispPc = "vend"
    /\ dispI = N
    /\ dispPc' = "done"
    /\ UNCHANGED <<listed, max, concurrency, stopTime, builds, maxIdx, cols, parentDone,
                   cancelled, mainPc, remaining, ret, retCols, dispI, wPc, wIdx, wVal, det,
                   fetched, nilSent, oldSent,
                   given, sends>>
    /\ UNCHANGED <<rrVars, rsVars, fnVars>>

\* case <-old: return, met by the send of detector i (line 200), which then
\* finishes its critical section
DispOld(i) ==
    /\ dispPc = "vend"
    /\ dispI < N
    /\ det[i] = "select"
    /\ CanMeet
    /\ dispPc' = "done"
    /\ maxIdx' = NewMaxIdx(maxIdx, i)
    /\ det' = [det EXCEPT ![i] = "done"]
    /\ oldSent' = oldSent \cup {i}
    /\ UNCHANGED <<listed, max, concurrency, stopTime, builds, cols, parentDone,
                   cancelled, mainPc, remaining, ret, retCols, dispI, wPc, wIdx, wVal,
                   fetched, nilSent,
                   given, sends>>
    /\ UNCHANGED <<rrVars, rsVars, fnVars>>

\* ------------------------------------------------------------------------
\* readColumns: a worker (lines 143-217)
\* ------------------------------------------------------------------------
\* case <-ctx.Done(): return, at any of the worker's selects
WorkerCtxDone(w) ==
    /\ wPc[w] \in {"recv", "send"}
    /\ ctxDone
    /\ wPc' = [wPc EXCEPT ![w] = "done"]
    /\ wVal' = [wVal EXCEPT ![w] = "nil"]
    /\ UNCHANGED <<listed, max, concurrency, stopTime, builds, maxIdx, cols, parentDone,
                   cancelled, mainPc, remaining, ret, retCols, dispPc, dispI, wIdx, det,
                   fetched, nilSent, oldSent,
                   given, sends>>
    /\ UNCHANGED <<rrVars, rsVars, fnVars>>

\* case idx, open = <-indices with the channel closed: go on to report nil
WorkerClosed(w) ==
    /\ wPc[w] = "recv"
    /\ dispPc = "done"
    /\ wPc' = [wPc EXCEPT ![w] = "send"]
    /\ wVal' = [wVal EXCEPT ![w] = "nil"]
    /\ UNCHANGED <<listed, max, concurrency, stopTime, builds, maxIdx, cols, parentDone,
                   cancelled, mainPc, remaining, ret, retCols, dispPc, dispI, wIdx, det,
                   fetched, nilSent, oldSent,
                   given, sends>>
    /\ UNCHANGED <<rrVars, rsVars, fnVars>>

\* readResult and convertResult return (lines 167-215): on an error go on to
\* report it; otherwise start a stop detector if the column is old, and write the
\* column into its slot.  idx is not read again before the next receive assigns
\* it, so the step leaves it at its zero value.
WorkerRead(w) ==
    /\ wPc[w] = "read"
    /\ LET idx == wIdx[w]
           b == builds[idx + 1]
           col == [id |-> b.id, started |-> b.started]
       IN \E r \in readResultReturns(b), c \in convertResultReturns :
            IF r = "err" \/ c = "err"
              THEN /\ wPc' = [wPc EXCEPT ![w] = "send"]
                   /\ wVal' = [wVal EXCEPT ![w] = "err"]
                   /\ UNCHANGED <<det, cols>>
              ELSE /\ det' = IF IsOld(col.started, stop)
                               THEN [det EXCEPT ![idx] = "spawned"] ELSE det
                   /\ cols' = WriteCol(cols, idx, col)
                   /\ wPc' = [wPc EXCEPT ![w] = "recv"]
                   /\ wVal' = wVal
    /\ wIdx' = [wIdx EXCEPT ![w] = 0]
    /\ UNCHANGED <<listed, max, concurrency, stopTime, builds, maxIdx, parentDone,
                   cancelled, mainPc, remaining, ret, retCols, dispPc, dispI, fetched,
                   nilSent, oldSent,
                   given, sends>>
    /\ UNCHANGED <<rrVars, rsVars, fnVars>>

\* ------------------------------------------------------------------------
\* readColumns: a stop detector (lines 191-213)
\* ------------------------------------------------------------------------
\* A detector's critical section runs from maxLock.Lock() to the deferred Unlock;
\* nothing else reads or writes maxIdx while it is held, so the section is one
\* step unless the detector has to wait in its select.
\*
\* maxLock.Lock(); if maxIdx == len(builds) { select ... } else go on to
\* if maxIdx > idx+1 { maxIdx = idx + 1 }, Unlock and stopWG.Done
DetLock(i) ==
    /\ det[i] = "spawned"
    /\ LockFree
    /\ IF StillVending(maxIdx, N)
         THEN /\ det' = [det EXCEPT ![i] = "select"]
              /\ maxIdx' = maxIdx
         ELSE /\ det' = [det EXCEPT ![i] = "done"]
              /\ maxIdx' = NewMaxIdx(maxIdx, i)
    /\ UNCHANGED <<listed, max, concurrency, stopTime, builds, cols, parentDone,
                   cancelled, mainPc, remaining, ret, retCols, dispPc, dispI, wPc, wIdx,
                   wVal, fetched, nilSent, oldSent,
                   given, sends>>
    /\ UNCHANGED <<rrVars, rsVars, fnVars>>

DetNeverSeesDone == FALSE

\* the detector's case <-ctx.Done() can proceed
DetSeesDone == ctxDone

\* case <-ctx.Done(): another thread stopped; then
\* if maxIdx > idx+1 { maxIdx = idx + 1 }, Unlock and stopWG.Done
DetCtxDone(i) ==
    /\ det[i] = "select"
    /\ DetSeesDone
    /\ maxIdx' = NewMaxIdx(maxIdx, i)
    /\ det' = [det EXCEPT ![i] = "done"]
    /\ UNCHANGED <<listed, max, concurrency, stopTime, builds, cols, parentDone,
                   cancelled, mainPc, remaining, ret, retCols, dispPc, dispI, wPc, wIdx,
                   wVal, fetched, nilSent, oldSent,
                   given, sends>>
    /\ UNCHANGED <<rrVars, rsVars, fnVars>>

\* ------------------------------------------------------------------------
\* readColumns: the specification
\* ------------------------------------------------------------------------
ProgRC ==
    \/ MainZeroReaders
    \/ MainStart
    \/ \E w \in Workers : MainRecv(w)
    \/ MainCtxDone
    \/ MainCancel
    \/ MainWgWait
    \/ MainStopWait
    \/ MainSlice
    \/ \E w \in Workers : Vend(w)
    \/ DispCtxDone
    \/ DispClose
    \/ \E i \in Indices : DispOld(i)
    \/ \E w \in Workers : WorkerCtxDone(w)
    \/ \E w \in Workers : WorkerClosed(w)
    \/ \E w \in Workers : WorkerRead(w)
    \/ \E i \in Indices : DetLock(i)
    \/ \E i \in Indices : DetCtxDone(i)

NextRC == ParentCancel \/ ProgRC

SpecRC == InitRC /\ [][NextRC]_vars

\* Every goroutine that can take a step eventually takes one (the Go scheduler),
\* and every readResult call returns; the caller need never cancel parent.
FairSpecRC == SpecRC /\ WF_vars(ProgRC)

\* ------------------------------------------------------------------------
\* readColumns: properties
\* ------------------------------------------------------------------------
Min(S) == CHOOSE x \in S : \A y \in S : x <= y

\* the capped indices whose build a worker converted to a column that starts
\* before the boundary
OldConverted ==
    { i \in 0..(N - 1) : cols[i + 1].id # 0 /\ cols[i + 1].started < (stopTime \div 1000) * 1000 }

\* C1: a successful readColumns returns as many columns as the smallest idx+1
\* over the converted builds that start before the stop boundary, and all the
\* capped builds when there is none.
C1_StopLength ==
    ret = "ok" =>
        Len(retCols) = IF OldConverted = {} THEN N ELSE Min({i + 1 : i \in OldConverted})

\* two detectors raced: index 1 delivered the stop signal, index 0 shrank further
C1_Witness ==
    /\ ret = "ok"
    /\ oldSent = {1}
    /\ OldConverted = {0, 1}
    /\ Len(retCols) = 1

\* C2: in a successful return every position holds the column converted from the
\* build at that position, and that build was passed to readResult.
C2_OrderPreserved ==
    ret = "ok" =>
        \A i \in 1..Len(retCols) :
            /\ i <= N
            /\ retCols[i] = [id |-> builds[i].id, started |-> builds[i].started]
            /\ builds[i].id \in fetched

\* an early stop: index 1 delivered the signal, so the third build was never
\* vended, and the two columns fetched are returned
C2_Witness ==
    /\ ret = "ok"
    /\ oldSent = {1}
    /\ N = 3
    /\ Len(retCols) = 2

\* a build was read whose pod-info, started or finished download fails hard
HardRead ==
    \E p \in fetched :
        listed[p].pod = "err" \/ listed[p].st = "err" \/ listed[p].fin = "err"

\* C3: once a worker reads a build with a hard download failure, readColumns
\* does not succeed and returns no columns.
C3_HardFailsRun ==
    /\ HardRead => ret # "ok" /\ retCols = <<>>
    /\ ret = "err" => retCols = <<>>

\* the run failed on a hard download although another worker had written a column
C3_Witness ==
    /\ mainPc = "returned"
    /\ ret = "err"
    /\ HardRead
    /\ \E i \in 1..N : cols[i].id # 0

AllStopped ==
    /\ dispPc \in {"idle", "done"}
    /\ \A w \in Workers : wPc[w] \in {"unused", "done"}
    /\ \A i \in Indices : det[i] \in {"none", "done"}

\* C6: when readColumns returns, the dispatcher, the workers and the stop
\* detectors have all terminated; the successful result is computed from maxIdx
\* only after they have.
C6_NoLeak ==
    /\ mainPc = "returned" => AllStopped
    /\ ret = "ok" => AllStopped

\* an error return that had to wait for a detector
C6_Witness ==
    /\ mainPc = "returned"
    /\ ret = "err"
    /\ \E i \in Indices : det[i] = "done"
    /\ ~parentDone

\* C7: readColumns eventually returns.
C7_Terminates == <>(mainPc = "returned")

\* a detector holds the mutex, waiting to send to a dispatcher that has finished
C7_Witness ==
    /\ \E i \in Indices : det[i] = "select"
    /\ dispPc = "done"
    /\ ~ctxDone
    /\ \E i \in Indices : det[i] = "spawned"

\* the listing positions readColumns keeps
KeptPositions ==
    LET lb == Len(listed)
        keep == IF lb > max THEN max ELSE lb
    IN (lb - keep + 1)..lb

\* C8: readColumns keeps the last max builds of the listing, in listing order:
\* every kept build is listed after every discarded one (the newest by listing
\* order), no discarded build is passed to readResult and at most max columns
\* are returned.
C8_CapKeepsLast ==
    (mainPc # "start" /\ concurrency # 0) =>
        /\ Len(builds) = Cardinality(KeptPositions)
        /\ \A i \in 1..Len(builds) : builds[i] = listed[Len(listed) - Len(builds) + i]
        /\ \A i \in 1..Len(builds) :
              \A d \in (1..Len(listed)) \ { builds[j].id : j \in 1..Len(builds) } :
                  d < builds[i].id
        /\ fetched \subseteq KeptPositions
        /\ Len(retCols) <= max

\* a capped run that returned max columns
C8_Witness ==
    /\ Len(listed) > max
    /\ ret = "ok"
    /\ Len(retCols) = max
    /\ max = 2

\* no goroutine of readColumns was ever started and no build was passed to
\* readResult
NothingStarted ==
    /\ dispPc = "idle"
    /\ \A w \in Workers : wPc[w] = "unused"
    /\ \A i \in Indices : det[i] = "none"
    /\ fetched = {}
    /\ builds = <<>>
    /\ cols = <<>>
    /\ ~cancelled

\* C11: with concurrency 0 readColumns returns an error and no columns in its
\* first step, and neither the dispatcher nor a worker is started nor a build
\* read, before or after.
C11_ZeroReaders ==
    concurrency = 0 =>
        /\ NothingStarted
        /\ mainPc \in {"start", "returned"}
        /\ mainPc = "returned" => ret = "err" /\ retCols = <<>>

\* the call with no readers and a full listing has returned
C11_Witness ==
    /\ concurrency = 0
    /\ mainPc = "returned"
    /\ ret = "err"
    /\ Len(listed) = MaxBuilds

\* the indices worker w received whose column it has not written
Unwritten(w) == { i \in given[w] : cols[i + 1].id = 0 }

\* worker w is sending v on ec
Reporting(w, v) == wPc[w] = "send" /\ wVal[w] = v

\* C17: main receives at most one value from each worker; a worker reports nil
\* only with the index channel closed and every column it was given written,
\* and reports an error with exactly the last build it was given unwritten; a
\* successful return has received one nil from each of the concurrency workers.
C17_OneReportEach ==
    /\ \A w \in Workers : sends[w] <= 1
    /\ \A w \in Workers :
          (Reporting(w, "nil") \/ w \in nilSent) =>
              /\ dispPc = "done"
              /\ Unwritten(w) = {}
    /\ \A w \in Workers :
          Reporting(w, "err") =>
              /\ Cardinality(Unwritten(w)) = 1
              /\ \A i \in Unwritten(w) : \A j \in given[w] : j <= i
    /\ ret = "ok" =>
          /\ nilSent = 1..concurrency
          /\ \A w \in 1..concurrency : sends[w] = 1
          /\ Cardinality(nilSent) = concurrency

\* two workers shared three builds and both reported nil before the return
C17_Witness ==
    /\ ret = "ok"
    /\ concurrency = 2
    /\ nilSent = {1, 2}
    /\ Cardinality(given[1]) = 2
    /\ Cardinality(given[2]) = 1

\* C18: a detector waits to send on old only while maxIdx is still len(builds);
\* once a detector has delivered the signal, maxIdx is smaller, no detector
\* waits to send again, and no second signal is delivered.
C18_OneShotStop ==
    /\ \A i \in Indices : det[i] = "select" => maxIdx = N
    /\ oldSent # {} =>
          /\ maxIdx < N
          /\ \A i \in Indices : det[i] # "select"
          /\ dispPc = "done"
    /\ Cardinality(oldSent) <= 1

\* index 1 delivered the signal; the detector of index 0 ran after it and
\* shrank maxIdx without sending
C18_Witness ==
    /\ oldSent = {1}
    /\ det[0] = "done"
    /\ det[1] = "done"
    /\ maxIdx = 1

\* the indices handed out so far
Vended == UNION { given[w] : w \in Workers }

\* the indices handed out are 0..dispI-1, each held by one worker, and the
\* builds passed to readResult are the builds at those indices
VendedPrefix ==
    /\ dispI <= N
    /\ Vended = 0..(dispI - 1)
    /\ \A v, w \in Workers : v # w => given[v] \cap given[w] = {}
    /\ \A w \in Workers : w > concurrency => given[w] = {}
    /\ fetched = { builds[i + 1].id : i \in Vended }
    /\ oldSent # {} => dispPc = "done"

\* a step hands out nothing, or hands the next index to one worker; once the
\* dispatcher has returned, and so closed indices, nothing more is handed out
VendStep ==
    /\ \/ given' = given /\ dispI' = dispI
       \/ /\ dispPc = "vend"
          /\ dispI' = dispI + 1
          /\ \E w \in Workers : given' = [given EXCEPT ![w] = @ \cup {dispI}]
    /\ dispPc = "done" => dispPc' = "done" /\ given' = given

\* C19: the dispatcher hands out the indices 0, 1, 2, ... in that order, each
\* to one worker and once, so the indices handed out are always a prefix of the
\* capped builds; after the stop signal or the cancellation of ctx it has
\* returned, indices is closed and nothing more is handed out.
C19_PrefixVending == [](VendedPrefix) /\ [][VendStep]_vars

\* the stop signal ended the vending after two of three indices, which went to
\* different workers
C19_Witness ==
    /\ N = 3
    /\ dispPc = "done"
    /\ oldSent = {0}
    /\ given[1] = {1}
    /\ given[2] = {0}

\* the positions of the returned columns that start before the boundary
\* (stopTime in whole seconds, times 1000)
OldReturned ==
    { i \in 1..Len(retCols) : retCols[i].started < (stopTime \div 1000) * 1000 }

\* C20: a successful return holds at most one column that starts before the
\* boundary, and only in its last position.
C20_OldOnlyLast ==
    ret = "ok" =>
        /\ Cardinality(OldReturned) <= 1
        /\ \A i \in OldReturned : i = Len(retCols)
        /\ \A i \in 1..(Len(retCols) - 1) : retCols[i].started >= (stopTime \div 1000) * 1000

\* the third build was vended and converted, and the return was cut after the
\* old column at the second position without a stop signal being delivered
C20_Witness ==
    /\ ret = "ok"
    /\ N = 3
    /\ OldReturned = {2}
    /\ cols[3].id # 0
    /\ oldSent = {}

\* ========================================================================
\* readResult (lines 346-456)
\* ========================================================================
\* Go strings are byte sequences; < on strings compares them byte by byte.
PodinfoName == <<112, 111, 100, 105, 110, 102, 111, 46, 106, 115, 111, 110>>
StartedName == <<115, 116, 97, 114, 116, 101, 100, 46, 106, 115, 111, 110>>
FinishedName == <<102, 105, 110, 105, 115, 104, 101, 100, 46, 106, 115, 111, 110>>

\* build.Path.String(): "gs://b/j/1/"
BuildPath == <<103, 115, 58, 47, 47, 98, 47, 106, 47, 49, 47>>
\* "gs://b/j/1/junit.xml", beneath the build
InsidePath == <<103, 115, 58, 47, 47, 98, 47, 106, 47, 49, 47, 106, 117, 110, 105, 116, 46, 120, 109, 108>>
\* "gs://b/x/junit.xml", not beneath the build
OutsidePath == <<103, 115, 58, 47, 47, 98, 47, 120, 47, 106, 117, 110, 105, 116, 46, 120, 109, 108>>

Branches == {"podinfo", "started", "finished", "suites"}

NoPath == <<>>

\* what build.PodInfo, build.Started and build.Finished can return: a value,
\* io.EOF, another error
FileOutcomes == {[kind |-> k, path |-> NoPath] : k \in {"ok", "eof", "err"}}

\* what readSuites can return: suites, a gcs.Error (with its Path), another error
SuitesOutcomes ==
    {[kind |-> "ok", path |-> NoPath], [kind |-> "gcs", path |-> InsidePath],
     [kind |-> "gcs", path |-> OutsidePath], [kind |-> "err", path |-> NoPath]}

\* strings.HasPrefix
HasPrefix(str, prefix) ==
    /\ Len(str) >= Len(prefix)
    /\ SubSeq(str, 1, Len(prefix)) = prefix

\* strings.TrimPrefix
TrimPrefix(str, prefix) ==
    IF HasPrefix(str, prefix) THEN SubSeq(str, Len(prefix) + 1, Len(str)) ELSE str

\* a < b on Go strings
RECURSIVE StrLess(_, _)
StrLess(a, b) ==
    IF b = <<>> THEN FALSE
    ELSE IF a = <<>> THEN TRUE
    ELSE IF a[1] # b[1] THEN a[1] < b[1]
    ELSE StrLess(Tail(a), Tail(b))

RECURSIVE InsertSorted(_, _)
InsertSorted(x, sorted) ==
    IF sorted = <<>> THEN <<x>>
    ELSE IF StrLess(x, sorted[1]) THEN <<x>> \o sorted
    ELSE <<sorted[1]>> \o InsertSorted(x, Tail(sorted))

RECURSIVE SortedBy(_)
SortedBy(names) ==
    IF names = <<>> THEN <<>> ELSE InsertSorted(names[1], SortedBy(Tail(names)))

Unsorted(names) == names

\* sort.Slice(result.malformed, func(i, j int) bool { return malformed[i] < malformed[j] })
SortMalformed(names) == SortedBy(names)

FileName(b) ==
    CASE b = "podinfo"  -> PodinfoName
      [] b = "started"  -> StartedName
      [] b = "finished" -> FinishedName

\* The switch of a branch on what its download returned: the names it adds with
\* addMalformed and the error it goes on to report.
\*   case errors.Is(err, io.EOF): addMalformed(name); err = nil
\*   case err != nil:             err = fmt.Errorf(...)
\* and, for the suites,
\*   case errors.As(err, &gcsError): addMalformed(TrimPrefix(path, build path)); err = nil
\*   case err != nil:                err = fmt.Errorf("suites: %w", err)
BranchSwitch(b, o) ==
    IF b = "suites"
      THEN CASE o.kind = "gcs" -> [add |-> <<TrimPrefix(o.path, BuildPath)>>, err |-> "nil"]
             [] o.kind = "ok"  -> [add |-> <<>>, err |-> "nil"]
             [] OTHER          -> [add |-> <<>>, err |-> "err"]
      ELSE CASE o.kind = "eof" -> [add |-> <<FileName(b)>>, err |-> "nil"]
             [] o.kind = "ok"  -> [add |-> <<>>, err |-> "nil"]
             [] OTHER          -> [add |-> <<>>, err |-> "err"]

\* readResult's ctx
rrCtxDone == rrParentDone \/ rrCancelled

NoCancelOnReturn == rrCancelled

\* defer cancel() (line 348)
CancelOnReturn == TRUE

\* readColumns is not running
IdleRC ==
    /\ listed = <<>>
    /\ max = 0
    /\ concurrency = 0
    /\ stopTime = 0
    /\ builds = <<>>
    /\ maxIdx = 0
    /\ cols = <<>>
    /\ parentDone = FALSE
    /\ cancelled = FALSE
    /\ mainPc = "idle"
    /\ remaining = 0
    /\ ret = "none"
    /\ retCols = <<>>
    /\ dispPc = "idle"
    /\ dispI = 0
    /\ wPc = <<>>
    /\ wIdx = <<>>
    /\ wVal = <<>>
    /\ det = <<>>
    /\ fetched = {}
    /\ nilSent = {}
    /\ given = [w \in Workers |-> {}]
    /\ sends = [w \in Workers |-> 0]
    /\ oldSent = {}

\* readResult has started its four branches (work = 4) and is about to collect
InitRR ==
    /\ \E pi \in FileOutcomes, st \in FileOutcomes, fi \in FileOutcomes, su \in SuitesOutcomes :
         rrOut = [b \in Branches |->
                    CASE b = "podinfo" -> pi [] b = "started" -> st
                      [] b = "finished" -> fi [] b = "suites" -> su]
    /\ rrParentDone = FALSE
    /\ rrCancelled = FALSE
    /\ rrPc = "collect"
    /\ rrWork = Cardinality(Branches)
    /\ rrRet = "none"
    /\ rrRetMalformed = <<>>
    /\ bPc = [b \in Branches |-> "download"]
    /\ bErr = [b \in Branches |-> "nil"]
    /\ malformed = <<>>
    /\ rrNil = {}
    /\ IdleRC
    /\ IdleRS
    /\ IdleCR
    /\ IdleNC

\* the per-build timeout passes, or readColumns' ctx is cancelled
RRParentCancel ==
    /\ rrPc = "collect"
    /\ ~rrParentDone
    /\ rrParentDone' = TRUE
    /\ UNCHANGED <<rrOut, rrCancelled, rrPc, rrWork, rrRet, rrRetMalformed, bPc, bErr,
                   malformed, rrNil>>
    /\ UNCHANGED <<rcVars, rsVars, fnVars>>

\* a branch's download returns and the branch runs its switch
BranchDownload(b) ==
    /\ bPc[b] = "download"
    /\ LET sw == BranchSwitch(b, rrOut[b])
       IN /\ malformed' = malformed \o sw.add
          /\ bErr' = [bErr EXCEPT ![b] = sw.err]
    /\ bPc' = [bPc EXCEPT ![b] = "send"]
    /\ UNCHANGED <<rrOut, rrParentDone, rrCancelled, rrPc, rrWork, rrRet, rrRetMalformed,
                   rrNil>>
    /\ UNCHANGED <<rcVars, rsVars, fnVars>>

\* case ec <- err of a branch, met by the collector's case err := <-ec
BranchSend(b) ==
    /\ bPc[b] = "send"
    /\ rrPc = "collect"
    /\ ~rrCtxDone
    /\ bPc' = [bPc EXCEPT ![b] = "done"]
    /\ IF bErr[b] = "err"
         THEN /\ rrRet' = "err"
              /\ rrPc' = "defer"
              /\ UNCHANGED <<rrWork, rrNil>>
         ELSE /\ rrWork' = rrWork - 1
              /\ rrNil' = rrNil \cup {b}
              /\ rrPc' = IF rrWork - 1 > 0 THEN "collect" ELSE "sort"
              /\ rrRet' = rrRet
    /\ UNCHANGED <<rrOut, rrParentDone, rrCancelled, rrRetMalformed, bErr, malformed>>
    /\ UNCHANGED <<rcVars, rsVars, fnVars>>

\* case <-ctx.Done() of a branch
BranchCtxDone(b) ==
    /\ bPc[b] = "send"
    /\ rrCtxDone
    /\ bPc' = [bPc EXCEPT ![b] = "done"]
    /\ UNCHANGED <<rrOut, rrParentDone, rrCancelled, rrPc, rrWork, rrRet, rrRetMalformed,
                   bErr, malformed, rrNil>>
    /\ UNCHANGED <<rcVars, rsVars, fnVars>>

\* case <-ctx.Done(): return nil, fmt.Errorf("timeout: %w", ctx.Err())
RRCtxDone ==
    /\ rrPc = "collect"
    /\ rrCtxDone
    /\ rrRet' = "err"
    /\ rrPc' = "defer"
    /\ UNCHANGED <<rrOut, rrParentDone, rrCancelled, rrWork, rrRetMalformed, bPc, bErr,
                   malformed, rrNil>>
    /\ UNCHANGED <<rcVars, rsVars, fnVars>>

\* sort.Slice(result.malformed, ...); return &result, nil
RRSortReturn ==
    /\ rrPc = "sort"
    /\ malformed' = SortMalformed(malformed)
    /\ rrRetMalformed' = malformed'
    /\ rrRet' = "ok"
    /\ rrPc' = "defer"
    /\ UNCHANGED <<rrOut, rrParentDone, rrCancelled, rrWork, bPc, bErr, rrNil>>
    /\ UNCHANGED <<rcVars, rsVars, fnVars>>

\* the deferred cancel() runs and readResult returns
RRReturn ==
    /\ rrPc = "defer"
    /\ rrCancelled' = CancelOnReturn
    /\ rrPc' = "returned"
    /\ UNCHANGED <<rrOut, rrParentDone, rrWork, rrRet, rrRetMalformed, bPc, bErr,
                   malformed, rrNil>>
    /\ UNCHANGED <<rcVars, rsVars, fnVars>>

ProgRR ==
    \/ \E b \in Branches : BranchDownload(b)
    \/ \E b \in Branches : BranchSend(b)
    \/ \E b \in Branches : BranchCtxDone(b)
    \/ RRCtxDone
    \/ RRSortReturn
    \/ RRReturn

NextRR == RRParentCancel \/ ProgRR

SpecRR == InitRR /\ [][NextRR]_vars

\* Every goroutine that can take a step eventually takes one, and every
\* download call returns.
FairSpecRR == SpecRR /\ WF_vars(ProgRR)

\* ------------------------------------------------------------------------
\* readResult: properties
\* ------------------------------------------------------------------------
\* the branches whose download failed softly, and the name each records
SoftBranches ==
    {b \in Branches : IF b = "suites" THEN rrOut[b].kind = "gcs" ELSE rrOut[b].kind = "eof"}

HardBranches ==
    {b \in Branches : rrOut[b].kind = "err"}

SoftName(b) ==
    IF b = "suites"
      THEN IF HasPrefix(rrOut[b].path, BuildPath)
             THEN SubSeq(rrOut[b].path, Len(BuildPath) + 1, Len(rrOut[b].path))
             ELSE rrOut[b].path
      ELSE FileName(b)

IsSorted(names) ==
    \A i \in 1..(Len(names) - 1) : ~StrLess(names[i + 1], names[i])

\* C4: a soft failure never fails the build: with no hard failure and no
\* cancellation readResult succeeds, and a successful readResult returns the
\* sorted list of the names of the branches that failed softly, each once.
C4_SoftMalformed ==
    /\ (rrPc = "returned" /\ HardBranches = {} /\ ~rrParentDone) => rrRet = "ok"
    /\ rrRet = "ok" =>
         /\ IsSorted(rrRetMalformed)
         /\ Len(rrRetMalformed) = Cardinality(SoftBranches)
         /\ \A b \in SoftBranches : \E i \in 1..Len(rrRetMalformed) : rrRetMalformed[i] = SoftName(b)

\* started.json was recorded first and podinfo.json after it; the returned list
\* is in order
C4_Witness ==
    /\ rrPc = "returned"
    /\ rrRet = "ok"
    /\ rrOut["started"].kind = "eof"
    /\ rrOut["podinfo"].kind = "eof"
    /\ rrOut["finished"].kind = "ok"
    /\ rrRetMalformed = <<PodinfoName, StartedName>>

\* C5: a gcs.Error of the suites beneath the build's prefix is soft and records
\* the relative path; a gcs.Error elsewhere, like any other error, is hard.
C5_OutsideIsHard ==
    LET su == rrOut["suites"]
    IN /\ (rrRet = "ok" /\ su.kind = "gcs" /\ HasPrefix(su.path, BuildPath)) =>
              \E i \in 1..Len(rrRetMalformed) :
                  rrRetMalformed[i] = SubSeq(su.path, Len(BuildPath) + 1, Len(su.path))
       /\ (su.kind = "err" \/ (su.kind = "gcs" /\ ~HasPrefix(su.path, BuildPath))) =>
              rrRet # "ok"

\* C9: readResult succeeds only after each of the four branches has reported
\* nil, and once readResult has returned every branch terminates.
C9_AllReportThenStop ==
    /\ [](rrRet = "ok" => rrNil = Branches)
    /\ ((rrPc = "returned") ~> (\A b \in Branches : bPc[b] = "done"))

\* readResult returned on one branch's hard failure while another was still
\* downloading and a third was waiting to report
C9_Witness ==
    /\ rrPc = "returned"
    /\ rrRet = "err"
    /\ ~rrParentDone
    /\ \E b \in Branches : bPc[b] = "download"
    /\ \E b \in Branches : bPc[b] = "send"

\* ========================================================================
\* readSuites (lines 459-525)
\* ========================================================================
\* the most artifact names the listing stage sends
MaxNames == 2

\* suite.Suites.Truncate(1000)
TruncateMax == 1000

\* the numbers of test cases a suite file can hold
CaseCounts == {3, 1500}

\* What the stages do: the listing sends names[1..n] and then fails or not; the
\* suite file of name k holds cases[k] test cases; the download stage may fail.
SuitesInputs ==
    UNION { [names : {n}, cases : [1..n -> CaseCounts], listFails : BOOLEAN, dlFails : BOOLEAN]
            : n \in 0..MaxNames }

\* the suite decoded from the file of name k
SuiteOf(k) == [name |-> k, cases |-> rsIn.cases[k]]

\* Suites.Truncate: at most limit test cases are kept
Truncate(suite, limit) ==
    [suite EXCEPT !.cases = IF suite.cases > limit THEN limit ELSE suite.cases]

NoTruncate(suite) == suite

\* suite.Suites.Truncate(1000), line 520
Capped(suite) == Truncate(suite, TruncateMax)

\* readSuites' ctx
rsCtxDone == rsParentDone \/ rsCancelled

\* readSuites has started both stages (work = 2) and is about to collect
InitRS ==
    /\ rsIn \in SuitesInputs
    /\ rsParentDone = FALSE
    /\ rsCancelled = FALSE
    /\ rsPc = "loop"
    /\ rsWork = 2
    /\ rsRet = "none"
    /\ rsRetSuites = <<>>
    /\ suites = <<>>
    /\ lsPc = "list"
    /\ lsSent = 0
    /\ lsErr = "nil"
    /\ dlPc = "run"
    /\ dlPending = {}
    /\ dlErr = "nil"
    /\ emitted = <<>>
    /\ IdleRC
    /\ IdleRR
    /\ IdleCR
    /\ IdleNC

\* readResult's ctx is cancelled: a timeout, or a sibling branch failed
RSParentCancel ==
    /\ rsPc = "loop"
    /\ ~rsParentDone
    /\ rsParentDone' = TRUE
    /\ UNCHANGED <<rsIn, rsCancelled, rsPc, rsWork, rsRet, rsRetSuites, suites, lsPc,
                   lsSent, lsErr, dlPc, dlPending, dlErr, emitted>>
    /\ UNCHANGED <<rcVars, rrVars, fnVars>>

\* ---- the listing stage: build.Artifacts(ctx, client, artifacts)
\* Artifacts sends the next name, met by the receive of build.Suites
ListSend ==
    /\ lsPc = "list"
    /\ lsSent < rsIn.names
    /\ dlPc = "run"
    /\ lsSent' = lsSent + 1
    /\ dlPending' = dlPending \cup {lsSent + 1}
    /\ UNCHANGED <<rsIn, rsParentDone, rsCancelled, rsPc, rsWork, rsRet, rsRetSuites,
                   suites, lsPc, lsErr, dlPc, dlErr, emitted>>
    /\ UNCHANGED <<rcVars, rrVars, fnVars>>

\* Artifacts returns after the last name: nil, or the listing's error;
\* err = fmt.Errorf("list: %w", err)
ListReturn ==
    /\ lsPc = "list"
    /\ lsSent = rsIn.names
    /\ lsErr' = IF rsIn.listFails THEN "err" ELSE "nil"
    /\ lsPc' = "report"
    /\ UNCHANGED <<rsIn, rsParentDone, rsCancelled, rsPc, rsWork, rsRet, rsRetSuites,
                   suites, lsSent, dlPc, dlPending, dlErr, emitted>>
    /\ UNCHANGED <<rcVars, rrVars, fnVars>>

\* Artifacts sees ctx cancelled and returns ctx.Err()
ListAbort ==
    /\ lsPc = "list"
    /\ lsSent < rsIn.names
    /\ rsCtxDone
    /\ lsErr' = "err"
    /\ lsPc' = "report"
    /\ UNCHANGED <<rsIn, rsParentDone, rsCancelled, rsPc, rsWork, rsRet, rsRetSuites,
                   suites, lsSent, dlPc, dlPending, dlErr, emitted>>
    /\ UNCHANGED <<rcVars, rrVars, fnVars>>

\* The collector's case err := <-ec on receiving e (lines 511-515, and the loop
\* condition work > 0 with the return suites, nil of line 524)
Collect(e) ==
    IF e = "err"
      THEN /\ rsRet' = "err"
           /\ rsRetSuites' = <<>>
           /\ rsPc' = "defer"
           /\ rsWork' = rsWork
      ELSE /\ rsWork' = rsWork - 1
           /\ IF rsWork - 1 > 0
                THEN /\ rsPc' = "loop"
                     /\ UNCHANGED <<rsRet, rsRetSuites>>
                ELSE /\ rsRet' = "ok"
                     /\ rsRetSuites' = suites
                     /\ rsPc' = "defer"

\* case ec <- err of the listing goroutine, met by the collector; then the
\* deferred close(artifacts)
ListReport ==
    /\ lsPc = "report"
    /\ rsPc = "loop"
    /\ ~rsCtxDone
    /\ Collect(lsErr)
    /\ lsPc' = "done"
    /\ UNCHANGED <<rsIn, rsParentDone, rsCancelled, suites, lsSent, lsErr, dlPc,
                   dlPending, dlErr, emitted>>
    /\ UNCHANGED <<rcVars, rrVars, fnVars>>

\* case <-ctx.Done() of the listing goroutine; then the deferred close(artifacts)
ListCtxDone ==
    /\ lsPc = "report"
    /\ rsCtxDone
    /\ lsPc' = "done"
    /\ UNCHANGED <<rsIn, rsParentDone, rsCancelled, rsPc, rsWork, rsRet, rsRetSuites,
                   suites, lsSent, lsErr, dlPc, dlPending, dlErr, emitted>>
    /\ UNCHANGED <<rcVars, rrVars, fnVars>>

\* ---- the download stage: build.Suites(ctx, client, artifacts, suitesChan)
\* Suites sends the suite of a name it has received, met by the collector's
\* case suite, more := <-suitesChan; suite.Suites.Truncate(1000); append.
\* The sender selects on a context derived from ctx, which closes after ctx.
DlEmit(k) ==
    /\ dlPc = "run"
    /\ k \in dlPending
    /\ rsPc = "loop"
    /\ dlPending' = dlPending \ {k}
    /\ emitted' = Append(emitted, SuiteOf(k))
    /\ suites' = Append(suites, Capped(SuiteOf(k)))
    /\ UNCHANGED <<rsIn, rsParentDone, rsCancelled, rsPc, rsWork, rsRet, rsRetSuites,
                   lsPc, lsSent, lsErr, dlPc, dlErr>>
    /\ UNCHANGED <<rcVars, rrVars, fnVars>>

\* Suites returns nil: artifacts is closed and every suite has been sent
DlReturn ==
    /\ dlPc = "run"
    /\ lsPc = "done"
    /\ dlPending = {}
    /\ dlErr' = "nil"
    /\ dlPc' = "report"
    /\ UNCHANGED <<rsIn, rsParentDone, rsCancelled, rsPc, rsWork, rsRet, rsRetSuites,
                   suites, lsPc, lsSent, lsErr, dlPending, emitted>>
    /\ UNCHANGED <<rcVars, rrVars, fnVars>>

\* Suites returns an error: a download failed, or it saw ctx cancelled;
\* err = fmt.Errorf("download: %w", err)
DlFail ==
    /\ dlPc = "run"
    /\ rsIn.dlFails \/ rsCtxDone
    /\ dlErr' = "err"
    /\ dlPc' = "report"
    /\ UNCHANGED <<rsIn, rsParentDone, rsCancelled, rsPc, rsWork, rsRet, rsRetSuites,
                   suites, lsPc, lsSent, lsErr, dlPending, emitted>>
    /\ UNCHANGED <<rcVars, rrVars, fnVars>>

\* case ec <- err of the download goroutine, met by the collector; then the
\* deferred close(suitesChan)
DlReport ==
    /\ dlPc = "report"
    /\ rsPc = "loop"
    /\ ~rsCtxDone
    /\ Collect(dlErr)
    /\ dlPc' = "done"
    /\ UNCHANGED <<rsIn, rsParentDone, rsCancelled, suites, lsPc, lsSent, lsErr,
                   dlPending, dlErr, emitted>>
    /\ UNCHANGED <<rcVars, rrVars, fnVars>>

\* case <-ctx.Done() of the download goroutine; then the deferred close(suitesChan)
DlCtxDone ==
    /\ dlPc = "report"
    /\ rsCtxDone
    /\ dlPc' = "done"
    /\ UNCHANGED <<rsIn, rsParentDone, rsCancelled, rsPc, rsWork, rsRet, rsRetSuites,
                   suites, lsPc, lsSent, lsErr, dlPending, dlErr, emitted>>
    /\ UNCHANGED <<rcVars, rrVars, fnVars>>

\* ---- the collector
\* case <-ctx.Done(): return nil, fmt.Errorf("timeout: %w", ctx.Err())
RSCtxDone ==
    /\ rsPc = "loop"
    /\ rsCtxDone
    /\ rsRet' = "err"
    /\ rsRetSuites' = <<>>
    /\ rsPc' = "defer"
    /\ UNCHANGED <<rsIn, rsParentDone, rsCancelled, rsWork, suites, lsPc, lsSent, lsErr,
                   dlPc, dlPending, dlErr, emitted>>
    /\ UNCHANGED <<rcVars, rrVars, fnVars>>

\* case suite, more := <-suitesChan with the channel closed: return suites, nil
RSClosed ==
    /\ rsPc = "loop"
    /\ dlPc = "done"
    /\ rsRet' = "ok"
    /\ rsRetSuites' = suites
    /\ rsPc' = "defer"
    /\ UNCHANGED <<rsIn, rsParentDone, rsCancelled, rsWork, suites, lsPc, lsSent, lsErr,
                   dlPc, dlPending, dlErr, emitted>>
    /\ UNCHANGED <<rcVars, rrVars, fnVars>>

\* the deferred cancel()
RSDeferCancel ==
    /\ rsPc = "defer"
    /\ rsCancelled' = TRUE
    /\ rsPc' = "wait"
    /\ UNCHANGED <<rsIn, rsParentDone, rsWork, rsRet, rsRetSuites, suites, lsPc, lsSent,
                   lsErr, dlPc, dlPending, dlErr, emitted>>
    /\ UNCHANGED <<rcVars, rrVars, fnVars>>

\* the deferred wg.Wait()
RSWait ==
    /\ rsPc = "wait"
    /\ lsPc = "done"
    /\ dlPc = "done"
    /\ rsPc' = "returned"
    /\ UNCHANGED <<rsIn, rsParentDone, rsCancelled, rsWork, rsRet, rsRetSuites, suites,
                   lsPc, lsSent, lsErr, dlPc, dlPending, dlErr, emitted>>
    /\ UNCHANGED <<rcVars, rrVars, fnVars>>

ProgRS ==
    \/ ListSend
    \/ ListReturn
    \/ ListAbort
    \/ ListReport
    \/ ListCtxDone
    \/ \E k \in 1..MaxNames : DlEmit(k)
    \/ DlReturn
    \/ DlFail
    \/ DlReport
    \/ DlCtxDone
    \/ RSCtxDone
    \/ RSClosed
    \/ RSDeferCancel
    \/ RSWait

NextRS == RSParentCancel \/ ProgRS

SpecRS == InitRS /\ [][NextRS]_vars

\* ------------------------------------------------------------------------
\* readSuites: properties
\* ------------------------------------------------------------------------
\* the suites emitted so far, each with at most 1000 test cases
EmittedCapped ==
    [i \in 1..Len(emitted) |->
        [name |-> emitted[i].name,
         cases |-> IF emitted[i].cases > 1000 THEN 1000 ELSE emitted[i].cases]]

\* a successful return gives every emitted suite, in order, truncated
C10_Complete ==
    (rsRet = "ok" /\ ~rsParentDone) => rsRetSuites = EmittedCapped /\ Len(emitted) = rsIn.names

\* a stage's failure gives an error and no suites
C10_StageFailure ==
    (rsRet # "none" /\ ~rsParentDone /\ (lsErr = "err" \/ dlErr = "err")) =>
        rsRet = "err" /\ rsRetSuites = <<>>

\* a cancelled context gives an error and no suites
C10_Cancelled ==
    (rsRet # "none" /\ rsParentDone) => rsRet = "err" /\ rsRetSuites = <<>>

\* C10: readSuites is all-or-nothing: without a failure and without cancellation
\* it returns exactly the suites the download stage emitted, in order, each
\* truncated to 1000 cases; on a stage's failure or a cancelled context it returns
\* an error and no suites.
C10_AllOrNothing ==
    /\ (rsPc = "returned" /\ ~rsParentDone /\ lsErr = "nil" /\ dlErr = "nil") =>
            rsRet = "ok" /\ rsRetSuites = EmittedCapped /\ Len(emitted) = rsIn.names
    /\ C10_StageFailure
    /\ C10_Cancelled

\* ========================================================================
\* hintStarted (lines 39-54) and gcsColumnReader (lines 56-85)
\* ========================================================================
\* Strings are byte sequences.  Started values are whole milliseconds, and so
\* are the times: time.Unix(sec, nsec) is the instant sec * 1000 + nsec / 10^6.
MaxOldCols == 2

\* time.Millisecond / time.Nanosecond
NanosPerMilli == 1000000

\* "", "9", "09", "10", "b9", "b10"
Hints == { <<>>, <<57>>, <<48, 57>>, <<49, 48>>, <<98, 57>>, <<98, 49, 48>> }

Starteds == {-300, 1499, 1500, 1700}

\* the first is a stop before the epoch, as the zero time.Time is
CallerStops == {-1000, 1000, 1600}

OldColumns == [hint : Hints, started : Starteds]

OldColLists == UNION { [1..n -> OldColumns] : n \in 0..MaxOldCols }

isdigit(c) == 48 <= c /\ c <= 57

\* for ; idx < len(str) && str[idx] == '0'; idx++ {}
RECURSIVE EatZeros(_, _)
EatZeros(str, idx) ==
    IF idx <= Len(str) /\ str[idx] = 48 THEN EatZeros(str, idx + 1) ELSE idx

\* for ; idx < len(str) && isdigit(str[idx]); idx++ {}
RECURSIVE EatDigits(_, _)
EatDigits(str, idx) ==
    IF idx <= Len(str) /\ isdigit(str[idx]) THEN EatDigits(str, idx + 1) ELSE idx

\* the loop of sortorder.NaturalLess from the positions idx1 and idx2 on
RECURSIVE NaturalLessFrom(_, _, _, _)
NaturalLessFrom(str1, str2, idx1, idx2) ==
    IF ~(idx1 <= Len(str1) /\ idx2 <= Len(str2))
      THEN Len(str1) < Len(str2)
      ELSE LET c1 == str1[idx1]
               c2 == str2[idx2]
               dig1 == isdigit(c1)
               dig2 == isdigit(c2)
               nonZero1 == EatZeros(str1, idx1)
               nonZero2 == EatZeros(str2, idx2)
               end1 == EatDigits(str1, nonZero1)
               end2 == EatDigits(str2, nonZero2)
               nr1 == SubSeq(str1, nonZero1, end1 - 1)
               nr2 == SubSeq(str2, nonZero2, end2 - 1)
           IN IF dig1 # dig2 THEN dig1
              ELSE IF ~dig1
                THEN IF c1 # c2 THEN c1 < c2
                     ELSE NaturalLessFrom(str1, str2, idx1 + 1, idx2 + 1)
              ELSE IF end1 - nonZero1 # end2 - nonZero2
                THEN end1 - nonZero1 < end2 - nonZero2
              ELSE IF nr1 # nr2 THEN StrLess(nr1, nr2)
              ELSE IF nonZero1 # nonZero2 THEN nonZero1 < nonZero2
              ELSE NaturalLessFrom(str1, str2, end1, end2)

\* sortorder.NaturalLess(str1, str2)
NaturalLess(str1, str2) == NaturalLessFrom(str1, str2, 1, 1)

KeepLastHint(i, hint, newHint) == newHint

\* if newHint := col.Column.Hint; i == 0 || sortorder.NaturalLess(hint, newHint)
\* { hint = newHint }, with i counted from 1
KeepHint(i, hint, newHint) ==
    IF i = 1 \/ NaturalLess(hint, newHint) THEN newHint ELSE hint

\* if i == 0 || newStarted > started { started = newStarted }
KeepStarted(i, started, newStarted) ==
    IF i = 1 \/ newStarted > started THEN newStarted ELSE started

\* the loop of hintStarted from column i on
RECURSIVE HintLoop(_, _, _)
HintLoop(cs, i, hint) ==
    IF i > Len(cs) THEN hint ELSE HintLoop(cs, i + 1, KeepHint(i, hint, cs[i].hint))

RECURSIVE StartedLoop(_, _, _)
StartedLoop(cs, i, started) ==
    IF i > Len(cs) THEN started
    ELSE StartedLoop(cs, i + 1, KeepStarted(i, started, cs[i].started))

\* int64(x / y) for whole x and y > 0: the quotient, truncated toward zero
TruncDiv(x, y) == IF x >= 0 THEN x \div y ELSE -((-x) \div y)

\* math.Remainder(x, y) for whole x and y > 0: x - n*y, n the whole number
\* nearest to x/y, the even one of two equally near
Remainder(x, y) ==
    LET q == x \div y
        r == x % y
        n == IF 2 * r < y THEN q
             ELSE IF 2 * r > y THEN q + 1
             ELSE IF q % 2 = 0 THEN q ELSE q + 1
    IN x - n * y

\* time.Unix(sec, nsec) as epoch milliseconds
UnixMillis(sec, nsec) == sec * 1000 + nsec \div NanosPerMilli

\* when := time.Unix(int64(started/1000),
\*                   int64(math.Remainder(started, 1000)) * int64(time.Millisecond/time.Nanosecond))
When(started) ==
    UnixMillis(TruncDiv(started, 1000), Remainder(started, 1000) * NanosPerMilli)

\* hintStarted(cols): the hint and the time
hintStarted(cs) ==
    [hint |-> HintLoop(cs, 1, <<>>), when |-> When(StartedLoop(cs, 1, 0))]

AlwaysAdvance(computed, stp) == computed

\* if newStop.After(stop) { stop = newStop }
AdvanceStop(computed, stp) == IF computed > stp THEN computed ELSE stp

InitCR ==
    /\ oldCols \in OldColLists
    /\ stopArg \in CallerStops
    /\ crPc = "start"
    /\ since = <<>>
    /\ newStop = 0
    /\ stopOut = stopArg
    /\ IdleRC
    /\ IdleRR
    /\ IdleRS
    /\ IdleNC

\* since, newStop := hintStarted(oldCols)
CRHintStarted ==
    /\ crPc = "start"
    /\ since' = hintStarted(oldCols).hint
    /\ newStop' = hintStarted(oldCols).when
    /\ crPc' = "hinted"
    /\ UNCHANGED <<oldCols, stopArg, stopOut>>
    /\ UNCHANGED <<rcVars, rrVars, rsVars, ncVars>>

\* lines 64-72: advance stop, which then goes to listBuilds and readColumns
CRAdvance ==
    /\ crPc = "hinted"
    /\ stopOut' = AdvanceStop(newStop, stopArg)
    /\ crPc' = "advanced"
    /\ UNCHANGED <<oldCols, stopArg, since, newStop>>
    /\ UNCHANGED <<rcVars, rrVars, rsVars, ncVars>>

NextCR == CRHintStarted \/ CRAdvance

SpecCR == InitCR /\ [][NextCR]_vars

\* ------------------------------------------------------------------------
\* hintStarted and gcsColumnReader: properties
\* ------------------------------------------------------------------------
\* the hints and the Started values of the old columns
HintsIn == { oldCols[i].hint : i \in 1..Len(oldCols) }

StartedsIn == { oldCols[i].started : i \in 1..Len(oldCols) }

\* h is a greatest hint of the old columns in natural order
NaturalMax(h) == h \in HintsIn /\ \A g \in HintsIn : ~NaturalLess(h, g)

\* C12 (as amended): the hint hintStarted returns is the greatest input hint in
\* natural order, and it is empty exactly when no column has a non-empty hint
\* (which includes the empty list).
C12_MaxHint ==
    crPc # "start" =>
        /\ oldCols # <<>> => NaturalMax(since)
        /\ since = <<>> <=> HintsIn \subseteq {<<>>}

\* C12 as stated: the hint is moreover empty only for the empty list.
C12_MaxHintEmptyIffNoColumns ==
    crPc # "start" =>
        /\ oldCols # <<>> => NaturalMax(since)
        /\ since = <<>> <=> oldCols = <<>>

\* "10" after "9": the byte order would have kept "9"
C12_Witness ==
    /\ crPc = "hinted"
    /\ Len(oldCols) = 2
    /\ oldCols[1].hint = <<57>>
    /\ oldCols[2].hint = <<49, 48>>
    /\ since = <<49, 48>>

\* C13: the time hintStarted returns is the instant of the greatest Started of
\* the columns.
C13_SameInstant ==
    (crPc # "start" /\ oldCols # <<>>) =>
        \A m \in StartedsIn : (\A x \in StartedsIn : x <= m) => newStop = m

\* C14: the stop handed to readColumns is the later of the caller's stop and the
\* time hintStarted computed from the old columns, so never earlier than the
\* caller's stop; for no columns that time is the epoch.
C14_StopNeverEarlier ==
    crPc = "advanced" =>
        /\ stopOut >= stopArg
        /\ stopOut >= newStop
        /\ stopOut \in {stopArg, newStop}
        /\ newStop = hintStarted(oldCols).when
        /\ oldCols = <<>> => newStop = 0

\* the stop was advanced past the caller's
C14_Witness ==
    /\ crPc = "advanced"
    /\ stopArg = 1000
    /\ newStop = 1499
    /\ stopOut = 1499

\* ========================================================================
\* nameConfig.render (lines 267-291) and makeNameConfig, convertNameConfig,
\* ensureJobName (lines 293-338)
\* ========================================================================
\* Parts and metadata keys are compared only for equality and are strings;
\* formats and the values substituted into them are byte sequences.
MaxParts == 2

MaxMetadatas == 2

testsName == "Tests name"

jobName == "Job name"

\* "%s"
VerbS == <<37, 115>>

\* "%s."
JobPrefix == <<37, 115, 46>>

\* "%!s(MISSING)", what fmt writes for a verb without an operand
MissingS == <<37, 33, 115, 40, 77, 73, 83, 83, 73, 78, 71, 41>>

\* "%!(EXTRA ", "string=", ", " and ")", what fmt writes for operands without a verb
ExtraOpen == <<37, 33, 40, 69, 88, 84, 82, 65, 32>>

ExtraType == <<115, 116, 114, 105, 110, 103, 61>>

ExtraSep == <<44, 32>>

ExtraClose == <<41>>

\* NameFormat: "%s" and "%s:%s"
NameFormats == { <<37, 115>>, <<37, 115, 58, 37, 115>> }

\* NameElements: a test property, a target config, and one with both filled
NameElements ==
    { [target |-> "", property |-> testsName],
      [target |-> jobName, property |-> ""],
      [target |-> "", property |-> "k"],
      [target |-> jobName, property |-> "k"] }

\* TestNameConfig: nil, or a format and its elements
TestNameConfigs ==
    { [isNil |-> TRUE, format |-> <<>>, elements |-> <<>>] } \cup
    { [isNil |-> FALSE, format |-> f, elements |-> es] :
        f \in NameFormats, es \in UNION { [1..n -> NameElements] : n \in 0..MaxParts } }

\* GcsPrefix: "a" and "a,b"
GcsPrefixes == { <<97>>, <<97, 44, 98>> }

Groups == [tnc : TestNameConfigs, gcsPrefix : GcsPrefixes]

\* the values of a mapping: "", "v", "w"
MetaValues == { <<>>, <<118>>, <<119>> }

\* a metadata mapping, with or without the key "k"
Metadata == UNION { [ks -> MetaValues] : ks \in SUBSET {"k"} }

MetadataLists == UNION { [1..n -> Metadata] : n \in 0..MaxMetadatas }

\* job "j1", test "t1"
RenderArgs == [job : { <<106, 49>> }, test : { <<116, 49>> }, metadatas : MetadataLists]

\* strings.Contains(str, ",")
ContainsComma(str) == \E i \in 1..Len(str) : str[i] = 44

\* firstFilled(strs...) for two strings
firstFilled(s1, s2) == IF s1 # "" THEN s1 ELSE IF s2 # "" THEN s2 ELSE ""

\* convertNameConfig(tnc)
convertNameConfig(tnc) ==
    IF tnc.isNil
      THEN [format |-> VerbS, parts |-> <<testsName>>, multiJob |-> FALSE]
      ELSE [format |-> tnc.format,
            parts |-> [i \in 1..Len(tnc.elements) |->
                          firstFilled(tnc.elements[i].target, tnc.elements[i].property)],
            multiJob |-> FALSE]

\* ensureJobName(nc)
ensureJobName(nc) ==
    IF \E i \in 1..Len(nc.parts) : nc.parts[i] = jobName
      THEN nc
      ELSE [nc EXCEPT !.format = JobPrefix \o nc.format,
                      !.parts = <<jobName>> \o nc.parts]

\* makeNameConfig(group)
makeNameConfig(g) ==
    LET nameCfgConverted == convertNameConfig(g.tnc)
    IN IF ContainsComma(g.gcsPrefix)
         THEN ensureJobName([nameCfgConverted EXCEPT !.multiJob = TRUE])
         ELSE nameCfgConverted

\* the default case of render's switch, from the k-th mapping on
RECURSIVE LookupFrom(_, _, _)
LookupFrom(part, metadatas, k) ==
    IF k > Len(metadatas) THEN <<>>
    ELSE IF part \in DOMAIN metadatas[k] THEN metadatas[k][part]
    ELSE LookupFrom(part, metadatas, k + 1)

\* the last mapping that has the part, instead of the first
LookupLast(part, metadatas) ==
    LET has == { k \in 1..Len(metadatas) : part \in DOMAIN metadatas[k] }
    IN IF has = {} THEN <<>>
       ELSE metadatas[CHOOSE k \in has : \A j \in has : j <= k][part]

\* for _, metadata := range metadatas { v, present := metadata[p]; ... break }
Lookup(part, metadatas) == LookupFrom(part, metadatas, 1)

\* the switch of render for one part
PartValue(part, job, test, metadatas) ==
    IF part = jobName THEN job
    ELSE IF part = testsName THEN test
    ELSE Lookup(part, metadatas)

\* the operands left over, as fmt lists them
RECURSIVE ExtraList(_, _)
ExtraList(operands, a) ==
    IF a > Len(operands) THEN ExtraClose
    ELSE ExtraType \o operands[a] \o
         (IF a < Len(operands) THEN ExtraSep ELSE <<>>) \o ExtraList(operands, a + 1)

\* fmt.Sprintf(format, operands...) for a format whose only verb is %s, from
\* byte i and operand a on
RECURSIVE SprintfFrom(_, _, _, _)
SprintfFrom(format, i, operands, a) ==
    IF i > Len(format)
      THEN IF a <= Len(operands) THEN ExtraOpen \o ExtraList(operands, a) ELSE <<>>
    ELSE IF format[i] = 37 /\ i < Len(format) /\ format[i + 1] = 115
      THEN (IF a <= Len(operands) THEN operands[a] ELSE MissingS)
           \o SprintfFrom(format, i + 2, operands, a + 1)
    ELSE <<format[i]>> \o SprintfFrom(format, i + 1, operands, a)

Sprintf(format, operands) == SprintfFrom(format, 1, operands, 1)

\* nc.render(job, test, metadatas...): the values parsed and the string returned
render(nc, job, test, metadatas) ==
    LET parsed == [i \in 1..Len(nc.parts) |-> PartValue(nc.parts[i], job, test, metadatas)]
    IN [parsed |-> parsed, out |-> Sprintf(nc.format, parsed)]

InitNC ==
    /\ group \in Groups
    /\ rnArgs \in RenderArgs
    /\ ncPc = "start"
    /\ nameCfg = <<>>
    /\ rendered = <<>>
    /\ IdleRC
    /\ IdleRR
    /\ IdleRS
    /\ IdleCR

\* nameCfg := makeNameConfig(group), line 142
NCMake ==
    /\ ncPc = "start"
    /\ nameCfg' = makeNameConfig(group)
    /\ ncPc' = "made"
    /\ UNCHANGED <<group, rnArgs, rendered>>
    /\ UNCHANGED <<rcVars, rrVars, rsVars, crVars>>

\* nameCfg.render(job, test, metadatas...)
NCRender ==
    /\ ncPc = "made"
    /\ rendered' = render(nameCfg, rnArgs.job, rnArgs.test, rnArgs.metadatas)
    /\ ncPc' = "rendered"
    /\ UNCHANGED <<group, rnArgs, nameCfg>>
    /\ UNCHANGED <<rcVars, rrVars, rsVars, crVars>>

NextNC == NCMake \/ NCRender

SpecNC == InitNC /\ [][NextNC]_vars

\* ------------------------------------------------------------------------
\* makeNameConfig and render: properties
\* ------------------------------------------------------------------------
\* the parts the group declares
DeclaredParts == convertNameConfig(group.tnc).parts

DeclaredFormat == convertNameConfig(group.tnc).format

\* the positions of the job name among the parts
JobNameAt(parts) == { i \in 1..Len(parts) : parts[i] = "Job name" }

\* C15: for a group whose GcsPrefix has a comma the name configuration starts
\* with the job name part, which occurs once, and its format has one "%s." put
\* before the declared format, never two, also when the declared parts already
\* had the job name.
C15_JobNameForcedFirst ==
    (ncPc # "start" /\ ContainsComma(group.gcsPrefix)) =>
        /\ nameCfg.multiJob
        /\ JobNameAt(nameCfg.parts) = {1}
        /\ JobNameAt(DeclaredParts) = {} => nameCfg.format = JobPrefix \o DeclaredFormat
        /\ nameCfg.format \in {DeclaredFormat, JobPrefix \o DeclaredFormat}

\* the mappings that have the part
Having(part) == { k \in 1..Len(rnArgs.metadatas) : part \in DOMAIN rnArgs.metadatas[k] }

\* C16: render parses one value per part, in part order: the job for the job
\* name, the test for the tests name, and otherwise the value of the first mapping
\* that has the part, or the empty string when none has; with as many verbs as
\* parts the values appear in the format in that order.
C16_RenderPerPart ==
    ncPc = "rendered" =>
        /\ Len(rendered.parsed) = Len(nameCfg.parts)
        /\ \A i \in 1..Len(nameCfg.parts) :
             LET part == nameCfg.parts[i]
             IN rendered.parsed[i] =
                  IF part = "Job name" THEN rnArgs.job
                  ELSE IF part = "Tests name" THEN rnArgs.test
                  ELSE IF Having(part) = {} THEN <<>>
                  ELSE rnArgs.metadatas[Min(Having(part))][part]
        /\ (nameCfg.format = <<37, 115>> /\ Len(nameCfg.parts) = 1) =>
              rendered.out = rendered.parsed[1]
        /\ (nameCfg.format = <<37, 115, 58, 37, 115>> /\ Len(nameCfg.parts) = 2) =>
              rendered.out = rendered.parsed[1] \o <<58>> \o rendered.parsed[2]
        /\ (nameCfg.format = <<37, 115, 46, 37, 115>> /\ Len(nameCfg.parts) = 2) =>
              rendered.out = rendered.parsed[1] \o <<46>> \o rendered.parsed[2]

\* job, then a key the first mapping lacks and the second has: "j1:w"
C16_Witness ==
    /\ ncPc = "rendered"
    /\ nameCfg.parts = <<"Job name", "k">>
    /\ nameCfg.format = <<37, 115, 58, 37, 115>>
    /\ Len(rnArgs.metadatas) = 2
    /\ DOMAIN rnArgs.metadatas[1] = {}
    /\ rnArgs.metadatas[2]["k"] = <<119>>
    /\ rendered.out = <<106, 49, 58, 119>>

====
